---- MODULE Spec2Model ----
(***************************************************************************)
(* WireCC (include/wirecc/wirecc.h): big-endian codecs and the ByteBuffer  *)
(* serialization protocol, modelled as state machines.                     *)
(*                                                                         *)
(* Representation of C++ values:                                           *)
(*   uint8_t        a number in 0..255                                     *)
(*   uint16/32/64_t a sequence of 1/2/4 limbs of 16 bits, most significant *)
(*                  limb first (TLC numbers stop at 2^31-1)                *)
(*   int            a number in -2^31 .. 2^31-1                            *)
(*   char           a number in -128..127 (plain char is signed)           *)
(*   bool           a BOOLEAN                                              *)
(*   std::string    a sequence of char                                     *)
(*   ResourceSet    a set of int (std::set iterates in ascending order)    *)
(*   size_t, pos    a natural number far below 2^32                        *)
(*   ByteBuffer     a record [buf, pos]                                    *)
(*                                                                         *)
(* Undefined behaviour: forming or using a reference to a vector element   *)
(* that does not exist (buf[i] with i >= buf.size()) is undefined.  Every  *)
(* method result carries a field ub that tells whether the call did so.    *)
(* The outcomes modelled are: the process aborts (checked builds of the    *)
(* standard library, a fault), or it goes on as an unchecked build does:   *)
(* such a read yields a byte of unrelated memory (the oracle g) and such a *)
(* write lands outside the content.                                        *)
(***************************************************************************)
EXTENDS Integers, Sequences, FiniteSets, TLC

\* ------------------------------------------------------------------------
\* Fixed-width integers
\* ------------------------------------------------------------------------
Byte == 0..255

Limb == 65536

\* (x | y) on two 16-bit limbs
RECURSIVE BitOr(_, _)
BitOr(x, y) ==
    IF x = 0 THEN y
    ELSE IF y = 0 THEN x
    ELSE (IF x % 2 = 1 \/ y % 2 = 1 THEN 1 ELSE 0) + 2 * BitOr(x \div 2, y \div 2)

\* (a | b) on two words of the same width
WordOr(a, b) == [i \in 1..Len(a) |-> BitOr(a[i], b[i])]

\* ((val >> shift) & 0xff) for shift a multiple of 8 below the width of val
ShrAndFF(val, shift) ==
    LET limb == val[Len(val) - (shift \div 16)]
    IN  (IF shift % 16 = 8 THEN limb \div 256 ELSE limb) % 256

\* ((uintN_t) byte << shift) as a word of n limbs, shift a multiple of 8;
\* bits shifted beyond the width are lost
ShlByte(byte, shift, n) ==
    [i \in 1..n |->
        IF i = n - (shift \div 16)
        THEN (IF shift % 16 = 8 THEN (byte * 256) % Limb ELSE byte)
        ELSE 0]

\* size_t or unsigned literal -> uint32_t (value below 2^31)
U32Of(n) == <<(n \div Limb) % Limb, n % Limb>>

\* int -> unsigned int: the value modulo 2^32
IntToU32(i) == <<(i \div Limb) % Limb, i % Limb>>

\* unsigned int -> int: two's complement reinterpretation
U32ToInt(u) == (IF u[1] >= 32768 THEN u[1] - Limb ELSE u[1]) * Limb + u[2]

\* the loop count of an unsigned int, when it is below 2^31
U32Small(u) == u[1] < 32768
U32ToNat(u) == u[1] * Limb + u[2]

\* char -> uint8_t and uint8_t -> char
CharToByte(c) == c % 256
ByteToChar(x) == IF x >= 128 THEN x - 256 ELSE x

\* ------------------------------------------------------------------------
\* Endian codec
\* ------------------------------------------------------------------------
be64encode(val) ==
    << ShrAndFF(val, 56), ShrAndFF(val, 48), ShrAndFF(val, 40), ShrAndFF(val, 32),
       ShrAndFF(val, 24), ShrAndFF(val, 16), ShrAndFF(val, 8),  ShrAndFF(val, 0) >>

\* be64decode without the cast of buf[4]: the shift is made in int and the
\* int is sign-extended to 64 bits
be64decode_NoCast(b) ==
    LET b4 == IF b[5] >= 128
              THEN WordOr(ShlByte(b[5], 24, 4), <<65535, 65535, 0, 0>>)
              ELSE ShlByte(b[5], 24, 4)
    IN  WordOr(ShlByte(b[8], 0, 4),  WordOr(ShlByte(b[7], 8, 4),
        WordOr(ShlByte(b[6], 16, 4), WordOr(b4,
        WordOr(ShlByte(b[4], 32, 4), WordOr(ShlByte(b[3], 40, 4),
        WordOr(ShlByte(b[2], 48, 4), ShlByte(b[1], 56, 4))))))))

be64decode(b) ==
    WordOr(ShlByte(b[8], 0, 4),  WordOr(ShlByte(b[7], 8, 4),
    WordOr(ShlByte(b[6], 16, 4), WordOr(ShlByte(b[5], 24, 4),
    WordOr(ShlByte(b[4], 32, 4), WordOr(ShlByte(b[3], 40, 4),
    WordOr(ShlByte(b[2], 48, 4), ShlByte(b[1], 56, 4))))))))

\* be32encode with the shift of the second byte mistyped
be32encode_Typo(val) ==
    << ShrAndFF(val, 24), ShrAndFF(val, 8), ShrAndFF(val, 8), ShrAndFF(val, 0) >>

be32encode(val) ==
    << ShrAndFF(val, 24), ShrAndFF(val, 16), ShrAndFF(val, 8), ShrAndFF(val, 0) >>

\* the operands are promoted to int; the 32 bits of the int are the result
be32decode(b) ==
    WordOr(ShlByte(b[4], 0, 2),  WordOr(ShlByte(b[3], 8, 2),
    WordOr(ShlByte(b[2], 16, 2), ShlByte(b[1], 24, 2))))

be16encode(val) == << ShrAndFF(val, 8), ShrAndFF(val, 0) >>

\* computed in int, truncated to 16 bits on return
be16decode(b) ==
    LET r == WordOr(ShlByte(b[2], 0, 2), ShlByte(b[1], 8, 2)) IN <<r[2]>>

\* ------------------------------------------------------------------------
\* ByteBuffer: std::vector<uint8_t> buf; unsigned int pos
\* A method is an operator from the object b = [buf, pos] (and its
\* arguments) to the object after the call, with the field ub and, for a
\* read, the field val: the value left in the output parameter.
\* ------------------------------------------------------------------------

\* buf[i] as an rvalue; outside the content the byte is whatever lies there
Peek(buf, i, g) == IF i < Len(buf) THEN buf[i + 1] ELSE g

\* buf[i] = x; outside the content the store does not reach the content
Poke(buf, i, x) == IF i < Len(buf) THEN [buf EXCEPT ![i + 1] = x] ELSE buf

\* the n bytes read through the pointer &buf[i]
PeekN(buf, i, n, g) == [k \in 1..n |-> Peek(buf, i + k - 1, g)]

\* the bytes stored through the pointer &buf[i]
PokeN(buf, i, bytes) ==
    [k \in 1..Len(buf) |->
        IF k - 1 >= i /\ k - 1 < i + Len(bytes) THEN bytes[k - i] ELSE buf[k]]

\* buf.resize(buf.size() + n): the new elements are value-initialized
Grow(buf, n) == buf \o [k \in 1..n |-> 0]

size(b) == Len(b.buf)

getPos(b) == b.pos

clear(b) == [buf |-> <<>>, pos |-> 0, ub |-> FALSE]

setPos(b, newPos) == [buf |-> b.buf, pos |-> newPos, ub |-> FALSE]

\* &buf[0]: the bytes the pointer leads to; no element exists when empty
data(b) == [bytes |-> b.buf, ub |-> Len(b.buf) = 0]

\* load without the call of clear()
load_NoClear(b, arr, n) ==
    [buf |-> SubSeq(arr, 1, n) \o b.buf, pos |-> b.pos, ub |-> FALSE]

\* data points to an array of at least size bytes
load(b, arr, n) ==
    LET c == clear(b)
    IN  [buf |-> SubSeq(arr, 1, n) \o c.buf, pos |-> c.pos, ub |-> FALSE]

\* concat without pos += size
concat_NoAdvance(b, arr, n) ==
    [buf |-> b.buf \o SubSeq(arr, 1, n), pos |-> b.pos, ub |-> FALSE]

concat(b, arr, n) ==
    [buf |-> b.buf \o SubSeq(arr, 1, n), pos |-> b.pos + n, ub |-> FALSE]

readU64(b, g) ==
    [buf |-> b.buf, pos |-> b.pos + 8,
     ub  |-> b.pos + 8 > Len(b.buf),
     val |-> be64decode(PeekN(b.buf, b.pos, 8, g))]

writeU64(b, val) ==
    LET grown == Grow(b.buf, 8)
    IN  [buf |-> PokeN(grown, b.pos, be64encode(val)),
         pos |-> b.pos + 8,
         ub  |-> b.pos + 8 > Len(grown)]

readUint(b, g) ==
    [buf |-> b.buf, pos |-> b.pos + 4,
     ub  |-> b.pos + 4 > Len(b.buf),
     val |-> be32decode(PeekN(b.buf, b.pos, 4, g))]

\* writeUint storing at the end of the old content instead of at pos
writeUint_AtTail(b, val) ==
    LET grown == Grow(b.buf, 4)
    IN  [buf |-> PokeN(grown, Len(b.buf), be32encode(val)),
         pos |-> b.pos + 4,
         ub  |-> FALSE]

writeUint(b, val) ==
    LET grown == Grow(b.buf, 4)
    IN  [buf |-> PokeN(grown, b.pos, be32encode(val)),
         pos |-> b.pos + 4,
         ub  |-> b.pos + 4 > Len(grown)]

readInt(b, g) ==
    LET r == readUint(b, g)
    IN  [buf |-> r.buf, pos |-> r.pos, ub |-> r.ub, val |-> U32ToInt(r.val)]

writeInt(b, val) == writeUint(b, IntToU32(val))

readBool(b, g) ==
    [buf |-> b.buf, pos |-> b.pos + 1,
     ub  |-> b.pos >= Len(b.buf),
     val |-> Peek(b.buf, b.pos, g) # 0]

\* writeBool without ++pos
writeBool_NoAdvance(b, val) ==
    LET grown == Grow(b.buf, 1)
    IN  [buf |-> Poke(grown, b.pos, IF val THEN 1 ELSE 0),
         pos |-> b.pos,
         ub  |-> b.pos >= Len(grown)]

writeBool(b, val) ==
    LET grown == Grow(b.buf, 1)
    IN  [buf |-> Poke(grown, b.pos, IF val THEN 1 ELSE 0),
         pos |-> b.pos + 1,
         ub  |-> b.pos >= Len(grown)]

\* The iterations of a read loop that the model follows once the loop has
\* left the content (an unchecked build would go on until it faults).
LoopCap == 2

\* while (size-- > 0): the number of iterations followed
Iterations(b, count, width) ==
    LET inside == IF b.pos >= Len(b.buf) THEN 0
                  ELSE (Len(b.buf) - b.pos + width - 1) \div width
    IN  IF U32Small(count) /\ U32ToNat(count) <= inside + LoopCap
        THEN U32ToNat(count)
        ELSE inside + LoopCap

\* the loop of readRset: n times readInt(r); val.insert(r)
RECURSIVE readRsetLoop(_, _, _, _)
readRsetLoop(b, val, n, g) ==
    IF n = 0 THEN [buf |-> b.buf, pos |-> b.pos, ub |-> b.ub, val |-> val]
    ELSE LET r == readInt(b, g)
         IN  readRsetLoop([buf |-> r.buf, pos |-> r.pos, ub |-> b.ub \/ r.ub],
                          val \cup {r.val}, n - 1, g)

\* readRset with while (--size > 0)
readRset_PreDecrement(b, val, g) ==
    LET r == readUint(b, g)
        n == Iterations(r, r.val, 4)
    IN  readRsetLoop(r, val, IF n = 0 THEN LoopCap ELSE n - 1, g)

readRset(b, val, g) ==
    LET r == readUint(b, g)
    IN  readRsetLoop(r, val, Iterations(r, r.val, 4), g)

\* the elements of a std::set<int> in iteration order
RECURSIVE Ascending(_)
Ascending(S) ==
    IF S = {} THEN <<>>
    ELSE LET m == CHOOSE x \in S : \A y \in S : x <= y
         IN  <<m>> \o Ascending(S \ {m})

\* the loop of writeRset: writeInt of each element
RECURSIVE writeRsetLoop(_, _)
writeRsetLoop(b, elems) ==
    IF elems = <<>> THEN b
    ELSE LET r == writeInt(b, Head(elems))
         IN  writeRsetLoop([buf |-> r.buf, pos |-> r.pos, ub |-> b.ub \/ r.ub],
                           Tail(elems))

writeRset(b, val) ==
    writeRsetLoop(writeUint(b, U32Of(Cardinality(val))), Ascending(val))

\* the loop of readString: n times val.push_back(buf[pos]); ++pos
RECURSIVE readStringLoop(_, _, _, _)
readStringLoop(b, val, n, g) ==
    IF n = 0 THEN [buf |-> b.buf, pos |-> b.pos, ub |-> b.ub, val |-> val]
    ELSE readStringLoop([buf |-> b.buf, pos |-> b.pos + 1,
                         ub  |-> b.ub \/ b.pos >= Len(b.buf)],
                        Append(val, ByteToChar(Peek(b.buf, b.pos, g))), n - 1, g)

readString(b, val, g) ==
    LET r == readUint(b, g)
    IN  readStringLoop(r, val, Iterations(r, r.val, 1), g)

\* the loop of writeString: buf[pos] = val[i]; ++pos
RECURSIVE writeStringLoop(_, _, _)
writeStringLoop(b, val, i) ==
    IF i > Len(val) THEN b
    ELSE writeStringLoop([buf |-> Poke(b.buf, b.pos, CharToByte(val[i])),
                          pos |-> b.pos + 1,
                          ub  |-> b.ub \/ b.pos >= Len(b.buf)],
                         val, i + 1)

\* writeString that also writes a terminator
writeString_Terminator(b, val) ==
    LET r == writeUint(b, U32Of(Len(val) + 1))
    IN  writeStringLoop([buf |-> Grow(r.buf, Len(val) + 1), pos |-> r.pos, ub |-> r.ub],
                        Append(val, 0), 1)

writeString(b, val) ==
    LET r == writeUint(b, U32Of(Len(val)))
    IN  writeStringLoop([buf |-> Grow(r.buf, Len(val)), pos |-> r.pos, ub |-> r.ub],
                        val, 1)

\* std::string(const char*): the characters before the terminator
RECURSIVE CString(_)
CString(arr) ==
    IF arr = <<>> \/ Head(arr) = 0 THEN <<>>
    ELSE <<Head(arr)>> \o CString(Tail(arr))

writeCstring(b, arr) == writeString(b, CString(arr))

\* readBuffer loading from &buf[0]
readBuffer_FromStart(b, buffer, g) ==
    LET r == readUint(b, g)
        n == Iterations(r, r.val, 1)
        l == load(buffer, PeekN(r.buf, 0, n, g), n)
    IN  [buf |-> r.buf, pos |-> r.pos + n,
         ub  |-> r.ub \/ r.pos + n > Len(r.buf),
         val |-> [buf |-> l.buf, pos |-> l.pos]]

\* buffer.load(&buf[pos], size); the old state of buffer plays no part
readBuffer(b, buffer, g) ==
    LET r == readUint(b, g)
        n == Iterations(r, r.val, 1)
        l == load(buffer, PeekN(r.buf, r.pos, n, g), n)
    IN  [buf |-> r.buf, pos |-> r.pos + n,
         ub  |-> r.ub \/ r.pos >= Len(r.buf) \/ r.pos + n > Len(r.buf)
                      \/ ~U32Small(r.val) \/ U32ToNat(r.val) # n,
         val |-> [buf |-> l.buf, pos |-> l.pos]]

writeBuffer(b, other) ==
    LET r == writeUint(b, U32Of(size(other)))
        d == data(other)
    IN  [buf |-> r.buf \o SubSeq(d.bytes, 1, size(other)),
         pos |-> r.pos + size(other),
         ub  |-> r.ub \/ d.ub]

\* the object part of a method result
Obj(r) == [buf |-> r.buf, pos |-> r.pos]

\* ByteBuffer(): the constructor calls clear()
ByteBuffer == Obj(clear([buf |-> <<>>, pos |-> 0]))

\* ------------------------------------------------------------------------
\* Arguments the callers pass
\* ------------------------------------------------------------------------
\* 0x123456789ABCDEF0, 2^64-1, 0x00000000800000FF
U64Inputs == { <<4660, 22136, 39612, 57072>>, <<65535, 65535, 65535, 65535>>,
               <<0, 0, 32768, 255>> }

\* 0x12345678, 2^32-1, 12345
UintInputs == { <<4660, 22136>>, <<65535, 65535>>, <<0, 12345>> }

\* INT_MIN is among them
IntInputs == { -12345, 5, -2147483647 - 1 }

\* "", "t", "H\xE9" (a character above 0x7f is a negative char)
StringInputs == { <<>>, <<116>>, <<72, -23>> }

\* "t" and "" as null-terminated arrays, the first with bytes after the null
CstringInputs == { <<116, 0, 72>>, <<0>> }

RsetInputs == { {}, {-1}, {1, 5, 10} }

\* a buffer built by writeUint(12345); writeString("t")
BuiltBuffer == Obj(writeString(writeUint(ByteBuffer, <<0, 12345>>), <<116>>))

\* a buffer built by writeBool(true)
SmallBuffer == Obj(writeBool(ByteBuffer, TRUE))

\* argument buffers: empty, the built one with its cursor at 0, inside and
\* at the end, and the small one as written
NestedBuffers ==
    { ByteBuffer, SmallBuffer } \cup { Obj(setPos(BuiltBuffer, p)) : p \in {0, 4, 9} }

\* (array, size) pairs for load and concat; the last array is an integer
\* set stream with a repeated value: count 3, then 1, 1, 2; the one before
\* it is the encoding of a length 0 (an empty string, set or buffer)
ArrayInputs == { [arr |-> <<1, 2, 3, 4>>, n |-> 4],
                 [arr |-> <<1, 2, 3, 4>>, n |-> 2],
                 [arr |-> <<255>>, n |-> 0],
                 [arr |-> <<0, 0, 0, 0>>, n |-> 4],
                 [arr |-> <<0, 0, 0, 3, 0, 0, 0, 1, 0, 0, 0, 1, 0, 0, 0, 2>>, n |-> 16] }

\* positions passed to setPos: up to MaxPos bytes beyond the content
MaxPos == 2

\* bytes that a read outside the content may find
Garbage == {0, 255}

\* calls made on one buffer by the clients of Spec and SpecRead
MaxOps == 3

\* typed writes of one round trip
MaxWrites == 2

\* ------------------------------------------------------------------------
\* State
\* ------------------------------------------------------------------------
VARIABLES
    buf,        \* ByteBuffer::buf
    pos,        \* ByteBuffer::pos
    halted,     \* the process was aborted by undefined behaviour
    last,       \* the last call: op, arg, the object before it, its output
    prev,       \* the call before the last: op, arg
    nops,       \* calls made so far
    phase,      \* round trip: "setup", "write", "read"
    log,        \* round trip: the typed writes made, in order
    got,        \* round trip: the outputs of the reads made, in order
    pool,       \* the caller's container a generator points to (*from)
    cgen,       \* a CombinationGenerator: bmap, elems, greater, ssize
    rgen,       \* a RandomGenerator: elems
    debug,      \* the value of WIRECC_DEBUG the program was built with
    rets,       \* the results of the get() calls made on a generator
    bitmap,     \* a Bitmap: flags, mask
    ghost       \* Bitmap: maxBits and the set of indices it stands for

callVars == <<last, prev, nops>>
tripVars == <<phase, log, got>>
bufVars == <<buf, pos, prev, phase, log, got>>
genVars == <<pool, cgen, rgen, debug, rets>>
bitVars == <<bitmap, ghost>>
libVars == <<genVars, bitVars>>
vars == <<buf, pos, halted, last, prev, nops, phase, log, got,
          pool, cgen, rgen, debug, rets, bitmap, ghost>>

self == [buf |-> buf, pos |-> pos]

\* no generator and no bitmap has been constructed
NoGenerator ==
    /\ pool = {}
    /\ cgen = [bmap |-> <<>>, elems |-> <<>>, greater |-> FALSE, ssize |-> 0]
    /\ rgen = [elems |-> <<>>]
    /\ debug = 0
    /\ rets = <<>>

NoBitmap ==
    /\ bitmap = [flags |-> <<0, 0, 0, 0>>, mask |-> <<0, 0, 0, 0>>]
    /\ ghost = [maxBits |-> 0, S |-> {}, inRange |-> TRUE]

Init ==
    /\ buf = ByteBuffer.buf
    /\ pos = ByteBuffer.pos
    /\ halted = FALSE
    /\ last = [op |-> "ByteBuffer", arg |-> <<>>, buf0 |-> <<>>, pos0 |-> 0,
               val |-> <<>>, ub |-> FALSE]
    /\ prev = [op |-> "none", arg |-> <<>>]
    /\ nops = 0
    /\ phase = "setup"
    /\ log = <<>>
    /\ got = <<>>
    /\ NoGenerator
    /\ NoBitmap

\* The effect of a call whose result on the current object is r.  A call
\* with undefined behaviour either aborts the process or goes on.
Effect(r, abort) ==
    /\ ~halted
    /\ abort \in (IF r.ub THEN BOOLEAN ELSE {FALSE})
    /\ halted' = abort
    /\ buf' = IF abort THEN buf ELSE r.buf
    /\ pos' = IF abort THEN pos ELSE r.pos
    /\ UNCHANGED libVars

\* positions a client passes to setPos
Positions == {0, 2, 4} \cup (Len(buf)..(Len(buf) + MaxPos))

\* ------------------------------------------------------------------------
\* Spec: a client that builds content.  Any call, in any order, among
\* clear, setPos, load, concat and the writes.  (The reads change nothing
\* but pos, and setPos reaches every pos.)
\* ------------------------------------------------------------------------
Call(op, arg, r, out) ==
    /\ nops < MaxOps
    /\ nops' = nops + 1
    /\ prev' = [op |-> last.op, arg |-> last.arg]
    /\ \E abort \in BOOLEAN :
         /\ Effect(r, abort)
         /\ last' = [op |-> op, arg |-> arg, buf0 |-> buf, pos0 |-> pos,
                     val |-> IF abort THEN <<>> ELSE out, ub |-> r.ub]
    /\ UNCHANGED tripVars

Clear == Call("clear", <<>>, clear(self), <<>>)

SetPos == \E p \in Positions : Call("setPos", p, setPos(self, p), <<>>)

Load == \E a \in ArrayInputs : Call("load", a, load(self, a.arr, a.n), <<>>)

Concat == \E a \in ArrayInputs : Call("concat", a, concat(self, a.arr, a.n), <<>>)

WriteU64 == \E v \in U64Inputs : Call("writeU64", v, writeU64(self, v), <<>>)

WriteUint == \E v \in UintInputs : Call("writeUint", v, writeUint(self, v), <<>>)

WriteInt == \E v \in IntInputs : Call("writeInt", v, writeInt(self, v), <<>>)

WriteBool == \E v \in BOOLEAN : Call("writeBool", v, writeBool(self, v), <<>>)

WriteString == \E v \in StringInputs : Call("writeString", v, writeString(self, v), <<>>)

WriteCstring == \E v \in CstringInputs : Call("writeCstring", v, writeCstring(self, v), <<>>)

WriteRset == \E v \in RsetInputs : Call("writeRset", v, writeRset(self, v), <<>>)

\* the output is the argument buffer after the call (a const reference)
WriteBuffer == \E o \in NestedBuffers : Call("writeBuffer", o, writeBuffer(self, o), o)

Next ==
    \/ Clear \/ SetPos \/ Load \/ Concat
    \/ WriteU64 \/ WriteUint \/ WriteInt \/ WriteBool
    \/ WriteString \/ WriteCstring \/ WriteRset \/ WriteBuffer

Spec == Init /\ [][Next]_vars

\* ------------------------------------------------------------------------
\* SpecRead: a client that adopts bytes with load, places the cursor and
\* reads, in any order.  The output parameter of a read starts as any of
\* the argument values.
\* ------------------------------------------------------------------------
ReadU64 == \E g \in Garbage : LET r == readU64(self, g) IN Call("readU64", <<>>, r, r.val)

ReadUint == \E g \in Garbage : LET r == readUint(self, g) IN Call("readUint", <<>>, r, r.val)

ReadInt == \E g \in Garbage : LET r == readInt(self, g) IN Call("readInt", <<>>, r, r.val)

ReadBool == \E g \in Garbage : LET r == readBool(self, g) IN Call("readBool", <<>>, r, r.val)

ReadString ==
    \E g \in Garbage, v \in StringInputs :
        LET r == readString(self, v, g) IN Call("readString", v, r, r.val)

ReadRset ==
    \E g \in Garbage, v \in RsetInputs :
        LET r == readRset(self, v, g) IN Call("readRset", v, r, r.val)

ReadBuffer ==
    \E g \in Garbage, o \in NestedBuffers :
        LET r == readBuffer(self, o, g) IN Call("readBuffer", o, r, r.val)

NextRead ==
    \/ Load \/ SetPos
    \/ ReadU64 \/ ReadUint \/ ReadInt \/ ReadBool
    \/ ReadString \/ ReadRset \/ ReadBuffer

SpecRead == Init /\ [][NextRead]_vars

\* ------------------------------------------------------------------------
\* SpecTrip: a client that serializes and reads back.  It brings the buffer
\* into some state with the cursor inside the content or at its end (load,
\* setPos), makes up to MaxWrites typed writes,
\* returns the cursor to where the first write began, and makes the
\* matching reads in the same order into empty outputs.  Instead of writing
\* it may read an integer set from the bytes it has loaded.
\* ------------------------------------------------------------------------
TripCall(r, abort) ==
    /\ Effect(r, abort)
    /\ UNCHANGED callVars

TripLoad ==
    /\ phase = "setup"
    /\ \E a \in ArrayInputs : TripCall(load(self, a.arr, a.n), FALSE)
    /\ UNCHANGED tripVars

TripSetPos ==
    /\ phase = "setup"
    /\ \E p \in Positions \cap (0..Len(buf)) : TripCall(setPos(self, p), FALSE)
    /\ UNCHANGED tripVars

\* a typed write op(v) with result r: logged with the state it began in
TripWrite(op, v, r) ==
    /\ phase \in {"setup", "write"}
    /\ Len(log) < MaxWrites
    /\ \E abort \in BOOLEAN : TripCall(r, abort)
    /\ phase' = "write"
    /\ log' = Append(log, [op |-> op, val |-> v, at |-> pos, size0 |-> Len(buf)])
    /\ got' = got

TripWriteU64 == \E v \in U64Inputs : TripWrite("writeU64", v, writeU64(self, v))

TripWriteUint == \E v \in UintInputs : TripWrite("writeUint", v, writeUint(self, v))

TripWriteInt == \E v \in IntInputs : TripWrite("writeInt", v, writeInt(self, v))

TripWriteBool == \E v \in BOOLEAN : TripWrite("writeBool", v, writeBool(self, v))

TripWriteString == \E v \in StringInputs : TripWrite("writeString", v, writeString(self, v))

TripWriteCstring == \E v \in CstringInputs : TripWrite("writeCstring", v, writeCstring(self, v))

TripWriteRset == \E v \in RsetInputs : TripWrite("writeRset", v, writeRset(self, v))

TripWriteBuffer == \E o \in NestedBuffers : TripWrite("writeBuffer", o, writeBuffer(self, o))

\* setPos(start), start being getPos() before the first write
TripRewind ==
    /\ phase = "write"
    /\ TripCall(setPos(self, log[1].at), FALSE)
    /\ phase' = "read"
    /\ UNCHANGED <<log, got>>

\* the read with result r, made when the next unread value was written by
\* one of ops
TripRead(ops, r) ==
    /\ phase = "read"
    /\ Len(got) < Len(log)
    /\ log[Len(got) + 1].op \in ops
    /\ \E abort \in BOOLEAN :
         /\ TripCall(r, abort)
         /\ got' = Append(got, [val |-> IF abort THEN <<>> ELSE r.val,
                                ub |-> r.ub, at |-> pos])
    /\ UNCHANGED <<phase, log>>

TripReadU64 == \E g \in Garbage : TripRead({"writeU64"}, readU64(self, g))

TripReadUint == \E g \in Garbage : TripRead({"writeUint"}, readUint(self, g))

TripReadInt == \E g \in Garbage : TripRead({"writeInt"}, readInt(self, g))

TripReadBool == \E g \in Garbage : TripRead({"writeBool"}, readBool(self, g))

TripReadString ==
    \E g \in Garbage : TripRead({"writeString", "writeCstring"}, readString(self, <<>>, g))

TripReadRset == \E g \in Garbage : TripRead({"writeRset"}, readRset(self, {}, g))

\* the output buffer is in any state before the call
TripReadBuffer ==
    \E g \in Garbage, o \in NestedBuffers :
        TripRead({"writeBuffer"}, readBuffer(self, o, g))

\* readRset on loaded bytes, into an empty set
TripReadStream ==
    /\ phase = "setup"
    /\ \E g \in Garbage, abort \in BOOLEAN :
         LET r == readRset(self, {}, g)
         IN  /\ TripCall(r, abort)
             /\ got' = <<[val |-> IF abort THEN <<>> ELSE r.val,
                          ub |-> r.ub, at |-> pos]>>
    /\ phase' = "read"
    /\ log' = log

NextTrip ==
    \/ TripLoad \/ TripSetPos
    \/ TripWriteU64 \/ TripWriteUint \/ TripWriteInt \/ TripWriteBool
    \/ TripWriteString \/ TripWriteCstring \/ TripWriteRset \/ TripWriteBuffer
    \/ TripRewind
    \/ TripReadU64 \/ TripReadUint \/ TripReadInt \/ TripReadBool
    \/ TripReadString \/ TripReadRset \/ TripReadBuffer
    \/ TripReadStream

SpecTrip == Init /\ [][NextTrip]_vars

\* ------------------------------------------------------------------------
\* Properties of the content-building calls (Spec)
\* ------------------------------------------------------------------------
\* data[0..n) of an (array, size) argument
Prefix(a) == [i \in 1..a.n |-> a.arr[i]]

\* the encoded width of the fixed-size writes
Width(op) ==
    CASE op = "writeU64"  -> 8
      [] op = "writeUint" -> 4
      [] op = "writeInt"  -> 4
      [] op = "writeBool" -> 1

FixedWrites == {"writeU64", "writeUint", "writeInt", "writeBool"}

AllWrites == FixedWrites \cup {"writeString", "writeCstring", "writeRset", "writeBuffer"}

\* the bytes a write of arg produces on a cleared buffer
Encoding(op, arg) ==
    CASE op = "writeU64"    -> writeU64(ByteBuffer, arg).buf
      [] op = "writeUint"   -> writeUint(ByteBuffer, arg).buf
      [] op = "writeInt"    -> writeInt(ByteBuffer, arg).buf
      [] op = "writeBool"   -> writeBool(ByteBuffer, arg).buf
      [] op = "writeString" -> writeString(ByteBuffer, arg).buf

\* C3 as stated: in every buffer state the fixed-size writes increase
\* size() by 8, 4, 4, 1 and getPos() by the same amount, and no write
\* shrinks the content.
C3_EveryState ==
    /\ last.op \in FixedWrites =>
         /\ ~halted
         /\ Len(buf) = Len(last.buf0) + Width(last.op)
         /\ pos = last.pos0 + Width(last.op)
    /\ last.op \in AllWrites => Len(buf) >= Len(last.buf0)

\* C3 amended: in every buffer state with getPos() <= size() the fixed-size
\* writes increase size() by 8, 4, 4, 1 and getPos() by the same amount; no
\* write shrinks the content.
C3_WithinContent ==
    /\ (last.op \in FixedWrites /\ last.pos0 <= Len(last.buf0)) =>
         /\ ~halted
         /\ ~last.ub
         /\ Len(buf) = Len(last.buf0) + Width(last.op)
         /\ pos = last.pos0 + Width(last.op)
    /\ last.op \in AllWrites => Len(buf) >= Len(last.buf0)

\* a fixed-size write made with the cursor inside non-empty content
C3_Witness ==
    /\ last.op = "writeU64"
    /\ last.pos0 > 0
    /\ last.pos0 < Len(last.buf0)
    /\ Len(buf) = Len(last.buf0) + 8

\* C4 as stated: after setPos(p) with p < size(), a write appends to the
\* tail: the bytes at [0, previous size) are unchanged and the encoded bytes
\* start at the previous size.
C4_AppendsAtTail ==
    (/\ prev.op = "setPos"
     /\ last.op \in FixedWrites \cup {"writeString"}
     /\ last.pos0 < Len(last.buf0)) =>
        /\ ~halted
        /\ SubSeq(buf, 1, Len(last.buf0)) = last.buf0
        /\ SubSeq(buf, Len(last.buf0) + 1, Len(buf)) = Encoding(last.op, last.arg)

\* C4 amended: after setPos(p) with p < size(), a write grows the content at
\* the tail by the encoded width and stores the encoded bytes in place at
\* [p, p + width): bytes of the previous content outside that range are
\* unchanged, bytes inside it are overwritten, the rest of the new tail is
\* 0, and getPos() becomes p + width.
C4_OverwritesInPlace ==
    (/\ prev.op = "setPos"
     /\ last.op \in FixedWrites \cup {"writeString"}
     /\ last.pos0 < Len(last.buf0)) =>
        LET enc == Encoding(last.op, last.arg)
            p   == last.pos0
        IN  /\ ~halted
            /\ ~last.ub
            /\ p = prev.arg
            /\ Len(buf) = Len(last.buf0) + Len(enc)
            /\ pos = p + Len(enc)
            /\ \A i \in 0..(Len(buf) - 1) :
                 buf[i + 1] = IF i >= p /\ i < p + Len(enc) THEN enc[i - p + 1]
                              ELSE IF i < Len(last.buf0) THEN last.buf0[i + 1]
                              ELSE 0

\* a write after a rewind that changed a byte of the previous content
C4_Witness ==
    /\ prev.op = "setPos"
    /\ last.op = "writeString"
    /\ last.arg # <<>>
    /\ last.pos0 < Len(last.buf0)
    /\ SubSeq(buf, 1, Len(last.buf0)) # last.buf0
    /\ ~halted

\* C8: writeBuffer(other) appends the 4-byte length of other's whole content
\* and then all of that content, whatever other's cursor is, and leaves
\* other unchanged (destination in write mode: cursor at the end).
C8_WholeContent ==
    (last.op = "writeBuffer" /\ last.pos0 = Len(last.buf0)) =>
        /\ ~halted
        /\ buf = last.buf0 \o <<0, 0, 0, Len(last.arg.buf)>> \o last.arg.buf
        /\ last.val = last.arg

\* C9: load(data, n) from any state leaves exactly data[0..n) and position
\* 0; clear() leaves size 0 and position 0; a constructed buffer is cleared.
C9_LoadClear ==
    /\ last.op = "load" => /\ ~halted
                           /\ buf = Prefix(last.arg)
                           /\ Len(buf) = last.arg.n
                           /\ pos = 0
    /\ last.op = "clear" => ~halted /\ Len(buf) = 0 /\ pos = 0
    /\ last.op = "ByteBuffer" => buf = <<>> /\ pos = 0 /\ self = Obj(clear(self))

\* a load over old content whose cursor was beyond the content
C9_Witness ==
    /\ last.op = "load"
    /\ last.buf0 # <<>>
    /\ last.pos0 > Len(last.buf0)
    /\ last.arg.n > 0
    /\ last.arg.n < Len(last.arg.arr)

\* C10: concat(data, m) in any state appends data[0..m) after the last
\* byte, keeps the existing bytes, adds m to size() and to getPos(); after
\* load(d1, n); concat(d2, m) the content is d1 d2, size n + m, position m.
C10_Concat ==
    /\ last.op = "concat" =>
         /\ ~halted
         /\ buf = last.buf0 \o Prefix(last.arg)
         /\ Len(buf) = Len(last.buf0) + last.arg.n
         /\ pos = last.pos0 + last.arg.n
    /\ (last.op = "concat" /\ prev.op = "load") =>
         /\ buf = Prefix(prev.arg) \o Prefix(last.arg)
         /\ Len(buf) = prev.arg.n + last.arg.n
         /\ pos = last.arg.n

\* load(d1, n) then concat(d2, m) with n, m > 0
C10_Witness ==
    /\ last.op = "concat"
    /\ prev.op = "load"
    /\ prev.arg.n > 0
    /\ last.arg.n > 0
    /\ last.arg.n < Len(last.arg.arr)

\* ------------------------------------------------------------------------
\* Properties of round trips (SpecTrip)
\* ------------------------------------------------------------------------
\* the first write began on a cleared buffer
Fresh == log # <<>> /\ log[1].at = 0 /\ log[1].size0 = 0

\* the characters of a null-terminated array
Chars(arr) ==
    LET k == CHOOSE i \in 1..Len(arr) : arr[i] = 0 /\ \A j \in 1..(i - 1) : arr[j] # 0
    IN  [i \in 1..(k - 1) |-> arr[i]]

\* the value the matching read is to return for a logged write
Expected(e) ==
    CASE e.op = "writeCstring" -> Chars(e.val)
      [] e.op = "writeBuffer"  -> [buf |-> e.val.buf, pos |-> 0]
      [] OTHER                 -> e.val

\* the big-endian two's complement integer in the 4 bytes at offset i
IntAt(bytes, i) ==
    (IF bytes[i + 1] >= 128 THEN bytes[i + 1] - 256 ELSE bytes[i + 1]) * 16777216
    + bytes[i + 2] * 65536 + bytes[i + 3] * 256 + bytes[i + 4]

\* C1: from a cleared buffer, any sequence of typed writes, setPos(0) and
\* the matching reads in order: every read returns the value written at its
\* place, no read goes outside the content, and getPos() = size() after
\* the last read.
C1_RoundTrip ==
    Fresh =>
        /\ ~halted
        /\ \A i \in 1..Len(got) : ~got[i].ub /\ got[i].val = Expected(log[i])
        /\ (phase = "read" /\ Len(got) = Len(log)) => pos = Len(buf)

\* C2: from any state with getPos() <= size(): start = getPos(), a
\* fixed-size write of v, setPos(start), the read of the same type yields v
\* and leaves getPos() = start + width.
C2_PrimitiveRoundTrip ==
    (/\ Len(log) = 1
     /\ log[1].op \in FixedWrites
     /\ log[1].at <= log[1].size0
     /\ Len(got) = 1) =>
        /\ ~halted
        /\ ~got[1].ub
        /\ got[1].at = log[1].at
        /\ got[1].val = log[1].val
        /\ pos = log[1].at + Width(log[1].op)

\* a negative int written with the cursor inside old content and read back
C2_Witness ==
    /\ Len(log) = 1
    /\ Len(got) = 1
    /\ log[1].op = "writeInt"
    /\ log[1].val < 0
    /\ log[1].at > 0
    /\ log[1].at < log[1].size0
    /\ got[1].val = log[1].val

\* C5: on a cleared buffer writeString(s) and writeCstring of the same
\* characters produce the 4-byte big-endian length and the len(s) bytes of
\* s, nothing else; after setPos(0) readString into an empty string yields
\* s and getPos() = 4 + len(s).
C5_String ==
    (Fresh /\ Len(log) = 1 /\ log[1].op \in {"writeString", "writeCstring"}) =>
        LET s == Expected(log[1])
        IN  /\ ~halted
            /\ Len(buf) = 4 + Len(s)
            /\ buf = <<0, 0, 0, Len(s)>>
                     \o [i \in 1..Len(s) |-> IF s[i] < 0 THEN s[i] + 256 ELSE s[i]]
            /\ Len(got) = 1 => got[1].val = s /\ ~got[1].ub /\ pos = 4 + Len(s)

\* a string with a character above 0x7f read back
C5_Witness ==
    /\ Fresh
    /\ Len(log) = 1
    /\ log[1].op = "writeString"
    /\ log[1].val = <<72, -23>>
    /\ Len(got) = 1
    /\ got[1].val = <<72, -23>>
    /\ buf = <<0, 0, 0, 2, 72, 233>>

\* the bytes at offset i hold a count c and then c integers
StreamAt(bytes, i) ==
    /\ i + 4 <= Len(bytes)
    /\ bytes[i + 1] < 128
    /\ IntAt(bytes, i) <= (Len(bytes) - i - 4) \div 4

\* C6: writeRset(S) on a cleared buffer writes the 4-byte count |S| and |S|
\* signed 4-byte integers, and after setPos(0) readRset into an empty set
\* yields S; readRset on a count c followed by c integers yields the set of
\* the distinct values and advances the position by 4 + 4c.
C6_Rset ==
    /\ (Fresh /\ Len(log) = 1 /\ log[1].op = "writeRset") =>
          LET S == log[1].val
          IN  /\ ~halted
              /\ Len(buf) = 4 + 4 * Cardinality(S)
              /\ SubSeq(buf, 1, 4) = <<0, 0, 0, Cardinality(S)>>
              /\ {IntAt(buf, 4 + 4 * i) : i \in 0..(Cardinality(S) - 1)} = S
              /\ Len(got) = 1 =>
                    got[1].val = S /\ ~got[1].ub /\ pos = 4 + 4 * Cardinality(S)
    /\ (log = <<>> /\ Len(got) = 1 /\ StreamAt(buf, got[1].at)) =>
          LET a == got[1].at
              c == IntAt(buf, a)
          IN  /\ ~halted
              /\ ~got[1].ub
              /\ got[1].val = {IntAt(buf, a + 4 + 4 * i) : i \in 0..(c - 1)}
              /\ pos = a + 4 + 4 * c

\* a stream of three integers, one of them repeated, read as a set of two
C6_Witness ==
    /\ log = <<>>
    /\ Len(got) = 1
    /\ got[1].at = 0
    /\ Len(buf) = 16
    /\ IntAt(buf, 0) = 3
    /\ got[1].val = {1, 2}
    /\ pos = 16

\* C7: inner built by typed writes, outer cleared: outer.writeBuffer(inner),
\* outer.setPos(0), outer.readBuffer(out) with out in any state leaves out
\* with inner's content and position 0, leaves outer's content as it was,
\* advances outer's position by 4 + inner.size(), and the matching typed
\* reads on out give the values written into inner.
C7_NestedRoundTrip ==
    (Fresh /\ Len(log) = 1 /\ log[1].op = "writeBuffer" /\ log[1].val.buf # <<>>) =>
        LET inner == log[1].val
        IN  /\ ~halted
            /\ buf = <<0, 0, 0, Len(inner.buf)>> \o inner.buf
            /\ Len(got) = 1 =>
                 LET out == got[1].val
                     r1  == readUint(out, 0)
                     r2  == readString(r1, <<>>, 0)
                     r3  == readBool(out, 0)
                 IN  /\ ~got[1].ub
                     /\ out.buf = inner.buf
                     /\ out.pos = 0
                     /\ pos = got[1].at + 4 + Len(inner.buf)
                     /\ inner.buf = BuiltBuffer.buf =>
                          /\ r1.val = <<0, 12345>>
                          /\ r2.val = <<116>>
                          /\ ~r2.ub
                          /\ r2.pos = Len(out.buf)
                     /\ inner.buf = SmallBuffer.buf =>
                          r3.val = TRUE /\ ~r3.ub /\ r3.pos = Len(out.buf)

\* the built buffer, its cursor inside, extracted from the outer buffer
C7_Witness ==
    /\ Fresh
    /\ Len(log) = 1
    /\ log[1].op = "writeBuffer"
    /\ log[1].val = Obj(setPos(BuiltBuffer, 4))
    /\ Len(got) = 1
    /\ got[1].val = Obj(setPos(BuiltBuffer, 0))
    /\ pos = 13

\* ------------------------------------------------------------------------
\* CombinationGenerator<std::set<int>>: std::vector<bool> bmap; ElemList
\* elems; const T* from; bool greater; unsigned int ssize.  The object is
\* the record g; from points to the caller's container, passed as from.
\* ------------------------------------------------------------------------
CombinationGenerator(sampleSize) ==
    [bmap |-> <<>>, elems |-> <<>>, greater |-> FALSE, ssize |-> sampleSize]

\* hasNext() that looks at the pool whether or not bmap is filled
hasNext_NoEmptyTest(g, from) ==
    g.greater \/ Cardinality(from) >= g.ssize

hasNext_Strict(g, from) ==
    g.greater \/ (g.bmap = <<>> /\ Cardinality(from) > g.ssize)

hasNext(g, from) ==
    g.greater \/ (g.bmap = <<>> /\ Cardinality(from) >= g.ssize)

\* std::reverse
Reverse(a) == [i \in 1..Len(a) |-> a[Len(a) + 1 - i]]

\* next_permutation that leaves the last arrangement in place
next_permutation_NoWrap(a) ==
    LET n == Len(a)
        I == { i \in 1..(n - 1) : ~a[i] /\ a[i + 1] }
    IN  IF I = {} THEN [seq |-> a, greater |-> FALSE]
        ELSE LET i == CHOOSE x \in I : \A y \in I : y <= x
                 J == { j \in (i + 1)..n : ~a[i] /\ a[j] }
                 j == CHOOSE x \in J : \A y \in J : y <= x
                 swapped == [a EXCEPT ![i] = a[j], ![j] = a[i]]
             IN  [seq |-> SubSeq(swapped, 1, i) \o Reverse(SubSeq(swapped, i + 1, n)),
                  greater |-> TRUE]

\* next_permutation that swaps and leaves the tail as it is
next_permutation_NoReverse(a) ==
    LET n == Len(a)
        I == { i \in 1..(n - 1) : ~a[i] /\ a[i + 1] }
    IN  IF I = {} THEN [seq |-> Reverse(a), greater |-> FALSE]
        ELSE LET i == CHOOSE x \in I : \A y \in I : y <= x
                 J == { j \in (i + 1)..n : ~a[i] /\ a[j] }
                 j == CHOOSE x \in J : \A y \in J : y <= x
             IN  [seq |-> [a EXCEPT ![i] = a[j], ![j] = a[i]], greater |-> TRUE]

\* std::next_permutation on a vector<bool> (false < true): the next
\* arrangement in lexicographic order and true, or the first arrangement
\* and false when a is the last one
next_permutation(a) ==
    LET n == Len(a)
        I == { i \in 1..(n - 1) : ~a[i] /\ a[i + 1] }
    IN  IF I = {} THEN [seq |-> Reverse(a), greater |-> FALSE]
        ELSE LET i == CHOOSE x \in I : \A y \in I : y <= x
                 J == { j \in (i + 1)..n : ~a[i] /\ a[j] }
                 j == CHOOSE x \in J : \A y \in J : y <= x
                 swapped == [a EXCEPT ![i] = a[j], ![j] = a[i]]
             IN  [seq |-> SubSeq(swapped, 1, i) \o Reverse(SubSeq(swapped, i + 1, n)),
                  greater |-> TRUE]

\* the loop of get(): elems[i] for every i with bmap[i], in index order
RECURSIVE Selected(_, _, _)
Selected(bmap, elems, i) ==
    IF i > Len(bmap) THEN <<>>
    ELSE (IF bmap[i] THEN <<elems[i]>> ELSE <<>>) \o Selected(bmap, elems, i + 1)

\* get() with the initial mask filled from the front
CombinationGenerator_get_FillFront(g, from) ==
    LET n     == Cardinality(from)
        fresh == g.bmap = <<>>
        bmap1 == IF fresh THEN [i \in 1..n |-> i <= g.ssize] ELSE g.bmap
        elems1 == IF fresh THEN g.elems \o Ascending(from) ELSE g.elems
        np    == next_permutation(bmap1)
    IN  [bmap |-> np.seq, elems |-> elems1, greater |-> np.greater, ssize |-> g.ssize,
         val |-> Selected(bmap1, elems1, 1), mask |-> bmap1,
         ub |-> fresh /\ g.ssize > n]

\* get().  With ssize > from->size() the first argument of std::fill lies
\* before bmap.begin(): undefined; a build that goes on has set every bit of
\* bmap (and memory before it).  mask is bmap as the loop read it.
CombinationGenerator_get(g, from) ==
    LET n     == Cardinality(from)
        fresh == g.bmap = <<>>
        bmap1 == IF fresh THEN [i \in 1..n |-> i > n - g.ssize] ELSE g.bmap
        elems1 == IF fresh THEN g.elems \o Ascending(from) ELSE g.elems
        np    == next_permutation(bmap1)
    IN  [bmap |-> np.seq, elems |-> elems1, greater |-> np.greater, ssize |-> g.ssize,
         val |-> Selected(bmap1, elems1, 1), mask |-> bmap1,
         ub |-> fresh /\ g.ssize > n]

\* the elements a caller keeps in the pool, the sample sizes it asks for
\* and the get() calls it makes on one generator
MaxPool == 4
MaxSample == 5
MaxGets == 7

PoolElems == 1..MaxPool

\* ------------------------------------------------------------------------
\* SpecComb: a caller that owns a std::set<int>, constructs a generator on
\* it and then, in any order, calls get() (after hasNext() told it true or
\* false) and inserts into or erases from the set.
\* ------------------------------------------------------------------------
InitComb ==
    /\ buf = ByteBuffer.buf /\ pos = ByteBuffer.pos
    /\ prev = [op |-> "none", arg |-> <<>>]
    /\ phase = "setup" /\ log = <<>> /\ got = <<>>
    /\ NoBitmap
    /\ halted = FALSE
    /\ nops = 0
    /\ pool \in SUBSET PoolElems
    /\ \E k \in 0..MaxSample :
         /\ cgen = CombinationGenerator(k)
         /\ last = [op |-> "CombinationGenerator", arg |-> k]
    /\ rgen = [elems |-> <<>>]
    /\ debug = 0
    /\ rets = <<>>

CombFrame == UNCHANGED <<bufVars, bitVars, rgen, debug, nops>>

\* gen.get(); the caller has seen hasNext() return more
CombGet ==
    /\ ~halted
    /\ Len(rets) < MaxGets
    /\ LET r    == CombinationGenerator_get(cgen, pool)
           more == hasNext(cgen, pool)
       IN  \E abort \in (IF r.ub THEN BOOLEAN ELSE {FALSE}) :
             /\ halted' = abort
             /\ cgen' = IF abort THEN cgen
                        ELSE [bmap |-> r.bmap, elems |-> r.elems,
                              greater |-> r.greater, ssize |-> r.ssize]
             /\ rets' = IF abort THEN rets
                        ELSE Append(rets, [val |-> r.val, mask |-> r.mask,
                                           hasNext |-> more])
             /\ last' = [op |-> "get", arg |-> more]
    /\ pool' = pool
    /\ CombFrame

\* pool.insert(e) by the owner of the set
PoolInsert ==
    /\ ~halted
    /\ \E e \in PoolElems \ pool :
         /\ pool' = pool \cup {e}
         /\ last' = [op |-> "insert", arg |-> <<>>]
    /\ UNCHANGED <<cgen, rets, halted>>
    /\ CombFrame

\* pool.erase(e) by the owner of the set
PoolErase ==
    /\ ~halted
    /\ \E e \in pool :
         /\ pool' = pool \ {e}
         /\ last' = [op |-> "erase", arg |-> <<>>]
    /\ UNCHANGED <<cgen, rets, halted>>
    /\ CombFrame

NextComb == CombGet \/ PoolInsert \/ PoolErase

SpecComb == InitComb /\ [][NextComb]_vars

\* ------------------------------------------------------------------------
\* Properties of CombinationGenerator (SpecComb)
\* ------------------------------------------------------------------------
\* C(n, k)
RECURSIVE Binomial(_, _)
Binomial(n, k) ==
    IF k = 0 THEN 1
    ELSE IF k > n THEN 0
    ELSE Binomial(n - 1, k - 1) + Binomial(n - 1, k)

Range(s) == { s[i] : i \in 1..Len(s) }

\* every get() so far was made after hasNext() returned true
LoopOnly == \A i \in 1..Len(rets) : rets[i].hasNext

\* the pool's size when the first get() ran
FirstSize == Len(rets[1].mask)

\* C11: on a pool of n >= 1 elements at the first draw and k <= n, a caller
\* looping 'while hasNext() do get()' makes exactly C(n, k) calls: hasNext()
\* is true exactly while fewer than C(n, k) combinations were returned; each
\* combination has k distinct elements of the snapshot, and no two select
\* the same subset.
C11_Complete ==
    (~halted /\ rets # <<>> /\ LoopOnly /\ FirstSize >= 1 /\ cgen.ssize <= FirstSize) =>
        LET n == FirstSize
            k == cgen.ssize
        IN  /\ Len(rets) <= Binomial(n, k)
            /\ hasNext(cgen, pool) <=> Len(rets) < Binomial(n, k)
            /\ \A i \in 1..Len(rets) :
                 /\ Len(rets[i].val) = k
                 /\ Cardinality(Range(rets[i].val)) = k
                 /\ Range(rets[i].val) \subseteq Range(cgen.elems)
            /\ \A i, j \in 1..Len(rets) :
                 i # j => Range(rets[i].val) # Range(rets[j].val)

\* the loop over a 4-element pool with k = 2 has ended after 6 results
C11_Witness ==
    /\ ~halted /\ LoopOnly /\ Len(rets) = 6
    /\ cgen.ssize = 2 /\ Len(cgen.elems) = 4
    /\ ~hasNext(cgen, pool)

\* C12: with k = 0 and any pool, the empty one included: hasNext() is true
\* before the first get(), that get() returns the empty combination, and
\* after it hasNext() is false.
C12_ZeroSample ==
    (~halted /\ cgen.ssize = 0) =>
        /\ rets = <<>> => hasNext(cgen, pool)
        /\ Len(rets) >= 1 => rets[1].val = <<>>
        /\ Len(rets) = 1 => ~hasNext(cgen, pool)

\* C13: before the first get(), hasNext() is true iff the pool's current
\* size is >= k; so a first get() made after hasNext() returned true never
\* ran on a pool smaller than k.
C13_BeforeFirst ==
    /\ (~halted /\ rets = <<>>) =>
            (hasNext(cgen, pool) <=> Cardinality(pool) >= cgen.ssize)
    /\ (rets # <<>> /\ rets[1].hasNext) => cgen.ssize <= FirstSize

\* k exceeds the size of a pool the owner has changed: nothing to draw
C13_Witness ==
    /\ ~halted /\ rets = <<>>
    /\ last.op = "erase"
    /\ Cardinality(pool) = 2 /\ cgen.ssize = 3
    /\ ~hasNext(cgen, pool)

\* ------------------------------------------------------------------------
\* RandomGenerator<int, V>: std::vector<K> elems; std::map<K, V>* from.
\* The object is the record g; the map is given by its set of keys, which
\* it iterates in ascending order.
\* ------------------------------------------------------------------------
RandomGenerator == [elems |-> <<>>]

\* reset() that leaves the list as it is
reset_Keep(g) == [elems |-> g.elems]

reset(g) == [elems |-> <<>>]

\* erase that removes the last element instead (pop_back)
Erase_Last(s, i) == SubSeq(s, 1, Len(s) - 1)

\* elems.erase(elems.begin() + i)
Erase(s, i) == SubSeq(s, 1, i) \o SubSeq(s, i + 2, Len(s))

\* get() without the assertion
RandomGenerator_get_NoAssert(g, from, dbg, r) ==
    LET fresh  == g.elems = <<>>
        elems1 == IF fresh THEN g.elems \o Ascending(from) ELSE g.elems
        n      == Len(elems1)
        i      == IF n = 0 THEN 0 ELSE r % n
    IN  [elems  |-> IF n = 0 THEN elems1 ELSE Erase(elems1, i),
         val    |-> IF n = 0 THEN 0 ELSE elems1[i + 1],
         fill   |-> fresh,
         failed |-> FALSE,
         ub     |-> n = 0]

\* get() that returns the element and leaves it in the list
RandomGenerator_get_NoErase(g, from, dbg, r) ==
    LET fresh  == g.elems = <<>>
        elems1 == IF fresh THEN g.elems \o Ascending(from) ELSE g.elems
        n      == Len(elems1)
        i      == IF n = 0 THEN 0 ELSE r % n
    IN  [elems  |-> elems1,
         val    |-> IF n = 0 THEN 0 ELSE elems1[i + 1],
         fill   |-> fresh,
         failed |-> fresh /\ dbg # 0 /\ ~(Cardinality(from) > 0),
         ub     |-> n = 0]

\* get(), r being the value rand() returns.  failed: WIRECC_ASSERT is
\* assert() and its condition is false.  ub: elems is still empty after the
\* fill, rand() % 0 is undefined.
RandomGenerator_get(g, from, dbg, r) ==
    LET fresh  == g.elems = <<>>
        elems1 == IF fresh THEN g.elems \o Ascending(from) ELSE g.elems
        n      == Len(elems1)
        i      == IF n = 0 THEN 0 ELSE r % n
    IN  [elems  |-> IF n = 0 THEN elems1 ELSE Erase(elems1, i),
         val    |-> IF n = 0 THEN 0 ELSE elems1[i + 1],
         fill   |-> fresh,
         failed |-> fresh /\ dbg # 0 /\ ~(Cardinality(from) > 0),
         ub     |-> n = 0]

\* keys of the caller's map, values rand() returns (0 .. RAND_MAX), what a
\* build that survives rand() % 0 may hand back, calls made on one generator
KeyInputs == {1, 2, 3}
RandValues == {0, 1, 2, 32767}
GarbageKeys == {0, 3}
MaxCalls == 7

\* ------------------------------------------------------------------------
\* SpecRand: a caller that owns a map, constructs a generator on it and
\* calls get() and reset() in any order.  rets is the history of the calls:
\* op, the key returned, and whether the call filled the working list.
\* ------------------------------------------------------------------------
InitRand ==
    /\ buf = ByteBuffer.buf /\ pos = ByteBuffer.pos
    /\ prev = [op |-> "none", arg |-> <<>>]
    /\ phase = "setup" /\ log = <<>> /\ got = <<>>
    /\ NoBitmap
    /\ halted = FALSE
    /\ nops = 0
    /\ pool \in SUBSET KeyInputs
    /\ cgen = [bmap |-> <<>>, elems |-> <<>>, greater |-> FALSE, ssize |-> 0]
    /\ rgen = RandomGenerator
    /\ debug \in {0, 1}
    /\ rets = <<>>
    /\ last = [op |-> "RandomGenerator", arg |-> <<>>]

RandFrame == UNCHANGED <<bufVars, bitVars, pool, cgen, debug, nops>>

\* gen.get().  A failed assertion aborts before anything changes.  After
\* rand() % 0 the process is killed by the division, or goes on with an
\* iterator outside elems: it returns what lies there and erase() through
\* that iterator leaves no valid vector, which is as far as it is followed.
RandGet ==
    /\ ~halted
    /\ Len(rets) < MaxCalls
    /\ \E r \in RandValues :
         LET c == RandomGenerator_get(rgen, pool, debug, r)
         IN  \/ /\ c.failed
                /\ halted' = TRUE
                /\ last' = [op |-> "get", arg |-> "assertion failed"]
                /\ UNCHANGED <<rgen, rets>>
             \/ /\ ~c.failed /\ c.ub
                /\ halted' = TRUE
                /\ \/ /\ last' = [op |-> "get", arg |-> "killed"]
                      /\ UNCHANGED <<rgen, rets>>
                   \/ /\ \E k \in GarbageKeys :
                            rets' = Append(rets, [op |-> "get", val |-> k,
                                                  fill |-> c.fill])
                      /\ last' = [op |-> "get", arg |-> "corrupted"]
                      /\ rgen' = rgen
             \/ /\ ~c.failed /\ ~c.ub
                /\ halted' = FALSE
                /\ rgen' = [elems |-> c.elems]
                /\ rets' = Append(rets, [op |-> "get", val |-> c.val,
                                         fill |-> c.fill])
                /\ last' = [op |-> "get", arg |-> "returned"]
    /\ RandFrame

\* gen.reset()
RandReset ==
    /\ ~halted
    /\ Len(rets) < MaxCalls
    /\ rgen' = reset(rgen)
    /\ rets' = Append(rets, [op |-> "reset", val |-> 0, fill |-> FALSE])
    /\ last' = [op |-> "reset", arg |-> <<>>]
    /\ halted' = halted
    /\ RandFrame

NextRand == RandGet \/ RandReset

SpecRand == InitRand /\ [][NextRand]_vars

\* ------------------------------------------------------------------------
\* Properties of RandomGenerator (SpecRand)
\* ------------------------------------------------------------------------
\* the index of the last reset() in the history, 0 when there was none
LastReset ==
    LET I == { i \in 1..Len(rets) : rets[i].op = "reset" }
    IN  IF I = {} THEN 0 ELSE CHOOSE i \in I : \A j \in I : j <= i

\* the keys returned since construction or the last reset(), in order
Pass == [i \in 1..(Len(rets) - LastReset) |-> rets[LastReset + i].val]

\* the keys returned before the last reset()
DrawnBefore == { rets[i].val : i \in { j \in 1..LastReset : rets[j].op = "get" } }

\* the first n draws of the pass are pairwise distinct keys of the pool and,
\* once n were made, cover the pool
FullPass(n) ==
    LET m == IF Len(Pass) < n THEN Len(Pass) ELSE n
    IN  /\ \A i \in 1..m : Pass[i] \in pool
        /\ \A i, j \in 1..m : i # j => Pass[i] # Pass[j]
        /\ Len(Pass) >= n => { Pass[i] : i \in 1..n } = pool

\* C14: on a pool of n >= 1 keys, whatever rand() returns, the first n
\* calls of get() after construction or after a reset() return n pairwise
\* distinct keys of the pool, which together are all its keys.
C14_FullPass ==
    (~halted /\ Cardinality(pool) >= 1) => FullPass(Cardinality(pool))

\* three draws from a 3-key pool, not in ascending order
C14_Witness ==
    /\ ~halted /\ pool = {1, 2, 3}
    /\ LastReset = 0 /\ Pass = <<2, 3, 1>>

\* C15: between construction (or a reset()) and the next reset(), get()
\* returns no key more than once, however many calls are made.
C15_NoRepeat ==
    (~halted /\ Cardinality(pool) >= 1) =>
        \A i, j \in 1..Len(Pass) : i # j => Pass[i] # Pass[j]

\* C16: reset() at any point leaves the working list empty, so that the
\* next get() can return every key of the pool, those drawn before the
\* reset included, and the n draws after the reset return every key of
\* the pool exactly once.
C16_Reset ==
    (~halted /\ LastReset > 0 /\ Cardinality(pool) >= 1) =>
        /\ Len(Pass) = 0 =>
             /\ rgen.elems = <<>>
             /\ \A key \in pool : \E r \in RandValues :
                    LET c == RandomGenerator_get(rgen, pool, debug, r)
                    IN  ~c.failed /\ ~c.ub /\ c.fill /\ c.val = key
        /\ Len(Pass) >= 1 => rets[LastReset + 1].fill
        /\ FullPass(Cardinality(pool))

\* a reset in the middle of a pass, then a full pass that begins with the
\* key drawn before the reset
C16_Witness ==
    /\ ~halted /\ pool = {1, 2, 3}
    /\ LastReset = 2 /\ rets[1].val = 2
    /\ Pass = <<2, 1, 3>>

\* ------------------------------------------------------------------------
\* Bitmap: uint64_t flags, mask.  The object is the record b; a uint64_t is
\* a word of 4 limbs.
\* ------------------------------------------------------------------------
\* (x & y) and (x ^ y) on two 16-bit limbs
RECURSIVE BitAnd(_, _)
BitAnd(x, y) ==
    IF x = 0 \/ y = 0 THEN 0
    ELSE (IF x % 2 = 1 /\ y % 2 = 1 THEN 1 ELSE 0) + 2 * BitAnd(x \div 2, y \div 2)

RECURSIVE BitXor(_, _)
BitXor(x, y) ==
    IF x = 0 THEN y
    ELSE IF y = 0 THEN x
    ELSE (IF x % 2 # y % 2 THEN 1 ELSE 0) + 2 * BitXor(x \div 2, y \div 2)

WordAnd(a, b) == [i \in 1..Len(a) |-> BitAnd(a[i], b[i])]
WordXor(a, b) == [i \in 1..Len(a) |-> BitXor(a[i], b[i])]

\* (uint64_t) 0 and ~(uint64_t) 0
Zero64 == <<0, 0, 0, 0>>
Ones64 == <<65535, 65535, 65535, 65535>>

\* ((uint64_t) 1 << bit), bit < 64
Shl1(bit) == [i \in 1..4 |-> IF i = 4 - (bit \div 16) THEN 2 ^ (bit % 16) ELSE 0]

\* (uint64_t) std::pow(2, maxBits).  The double is exact; 2^64 and above
\* are outside uint64_t and the conversion is undefined: the hardware's
\* conversion yields 0 (after its range correction) or saturates (sat).
U64OfPow2(maxBits, sat) ==
    IF maxBits < 64 THEN Shl1(maxBits) ELSE IF sat THEN Ones64 ELSE Zero64

\* w - (uint64_t) 1, modulo 2^64
Minus1(w) ==
    LET nz == { i \in 1..4 : w[i] # 0 }
    IN  IF nz = {} THEN Ones64
        ELSE LET k == CHOOSE x \in nz : \A y \in nz : y <= x
             IN  [i \in 1..4 |-> IF i < k THEN w[i]
                                 ELSE IF i = k THEN w[i] - 1 ELSE 65535]

\* Bitmap(maxBits): clear(), then the mask
Bitmap(maxBits, sat) ==
    [flags |-> Zero64, mask |-> Minus1(U64OfPow2(maxBits, sat))]

isSet(b, bit) == WordAnd(b.flags, Shl1(bit)) # Zero64

isEmpty(b) == b.flags = Zero64

isFull(b) == b.flags = b.mask

\* set() that stores the bit instead of adding it
set_Assign(b, bit) == [flags |-> Shl1(bit), mask |-> b.mask]

set(b, bit) == [flags |-> WordOr(b.flags, Shl1(bit)), mask |-> b.mask]

unset(b, bit) ==
    [flags |-> WordAnd(b.flags, WordXor(b.mask, Shl1(bit))), mask |-> b.mask]

Bitmap_clear(b) == [flags |-> Zero64, mask |-> b.mask]

getFlags(b) == b.flags

\* constructor arguments and bit positions the callers pass (bit < 64, as
\* set() requires)
MaxBitsInputs == {0, 1, 4, 8, 63, 64}
BitInputs == {0, 1, 2, 3, 7, 63}

\* ------------------------------------------------------------------------
\* SpecBitmap: a caller that constructs a Bitmap and calls set, unset and
\* clear in any order.  ghost keeps maxBits, the set S of indices that the
\* same inserts, removals and resets make, and whether every index passed
\* so far was below maxBits.
\* ------------------------------------------------------------------------
InitBitmap ==
    /\ buf = ByteBuffer.buf /\ pos = ByteBuffer.pos
    /\ prev = [op |-> "none", arg |-> <<>>]
    /\ phase = "setup" /\ log = <<>> /\ got = <<>>
    /\ NoGenerator
    /\ halted = FALSE
    /\ nops = 0
    /\ \E m \in MaxBitsInputs, sat \in BOOLEAN :
         /\ bitmap = Bitmap(m, sat)
         /\ ghost = [maxBits |-> m, S |-> {}, inRange |-> TRUE]
         /\ last = [op |-> "Bitmap", arg |-> m, flags0 |-> Zero64]

BitFrame == UNCHANGED <<bufVars, genVars, halted, nops>>

BitSet ==
    /\ \E bit \in BitInputs :
         /\ bitmap' = set(bitmap, bit)
         /\ ghost' = [ghost EXCEPT !.S = @ \cup {bit},
                                   !.inRange = @ /\ bit < ghost.maxBits]
         /\ last' = [op |-> "set", arg |-> bit, flags0 |-> bitmap.flags]
    /\ BitFrame

BitUnset ==
    /\ \E bit \in BitInputs :
         /\ bitmap' = unset(bitmap, bit)
         /\ ghost' = [ghost EXCEPT !.S = @ \ {bit},
                                   !.inRange = @ /\ bit < ghost.maxBits]
         /\ last' = [op |-> "unset", arg |-> bit, flags0 |-> bitmap.flags]
    /\ BitFrame

BitClear ==
    /\ bitmap' = Bitmap_clear(bitmap)
    /\ ghost' = [ghost EXCEPT !.S = {}]
    /\ last' = [op |-> "clear", arg |-> 0, flags0 |-> bitmap.flags]
    /\ BitFrame

NextBitmap == BitSet \/ BitUnset \/ BitClear

SpecBitmap == InitBitmap /\ [][NextBitmap]_vars

\* ------------------------------------------------------------------------
\* Properties of Bitmap (SpecBitmap)
\* ------------------------------------------------------------------------
\* the indices of the bits that are 1 in a 64-bit word
Bits(w) == { i \in 0..63 : (w[4 - (i \div 16)] \div (2 ^ (i % 16))) % 2 = 1 }

\* the sum of 2^i over the indices i of S, as a 64-bit word
RECURSIVE SumPow(_)
SumPow(S) ==
    IF S = {} THEN 0
    ELSE LET i == CHOOSE x \in S : TRUE IN 2 ^ i + SumPow(S \ {i})

SumWord(S) == [l \in 1..4 |-> SumPow({ i % 16 : i \in { j \in S : 4 - (j \div 16) = l } })]

\* C17: for maxBits in [0, 64], after every set(bit) with bit < 64,
\* unset(bit) and clear(), no bit at an index >= maxBits is set in flags.
C17_MaskInvariant ==
    \A i \in Bits(getFlags(bitmap)) : i < ghost.maxBits

\* C18: right after unset(bit), for any bit < 64, isSet(bit) is false and
\* every other bit below maxBits is as it was before the call.
C18_Unset ==
    last.op = "unset" =>
        /\ ~isSet(bitmap, last.arg)
        /\ \A i \in 0..(ghost.maxBits - 1) :
             i # last.arg => (i \in Bits(bitmap.flags) <=> i \in Bits(last.flags0))

LimbInputs == {0, 255, 4660, 32768, 65535}
ByteInputs == {0, 18, 127, 128, 255}
ByteInputs64 == {0, 128, 255}

\* all arrays of n elements of S
Arrays(S, n) == [1..n -> S]

\* the values passed to the encoders and the arrays passed to the decoders
Values64 == Arrays(LimbInputs, 4) \cup U64Inputs
Values32 == Arrays(LimbInputs, 2) \cup UintInputs
Values16 == Arrays(LimbInputs, 1)
Bytes64 == Arrays(ByteInputs64, 8)
Bytes32 == Arrays(ByteInputs, 4)
Bytes16 == Arrays(ByteInputs, 2)

\* the caller holds an argument
InitCodec ==
    /\ buf = ByteBuffer.buf /\ pos = ByteBuffer.pos
    /\ prev = [op |-> "none", arg |-> <<>>]
    /\ phase = "setup" /\ log = <<>> /\ got = <<>>
    /\ NoGenerator
    /\ NoBitmap
    /\ halted = FALSE
    /\ nops = 0
    /\ \E a \in Values64 \cup Values32 \cup Values16 \cup Bytes64 \cup Bytes32 \cup Bytes16 :
         last = [op |-> "none", arg |-> a, out |-> <<>>]

\* the caller passes its argument to the function op, which returns out
CodecCall(op, out) ==
    /\ last.op = "none"
    /\ last' = [op |-> op, arg |-> last.arg, out |-> out]
    /\ UNCHANGED <<bufVars, libVars, halted, nops>>

Be64Encode == last.arg \in Values64 /\ CodecCall("be64encode", be64encode(last.arg))

Be64Decode == last.arg \in Bytes64 /\ CodecCall("be64decode", be64decode(last.arg))

Be32Encode == last.arg \in Values32 /\ CodecCall("be32encode", be32encode(last.arg))

Be32Decode == last.arg \in Bytes32 /\ CodecCall("be32decode", be32decode(last.arg))

Be16Encode == last.arg \in Values16 /\ CodecCall("be16encode", be16encode(last.arg))

Be16Decode == last.arg \in Bytes16 /\ CodecCall("be16decode", be16decode(last.arg))

NextCodec ==
    \/ Be64Encode \/ Be64Decode
    \/ Be32Encode \/ Be32Decode
    \/ Be16Encode \/ Be16Decode

SpecCodec == InitCodec /\ [][NextCodec]_vars

\* ------------------------------------------------------------------------
\* Properties of the codec (SpecCodec)
\* ------------------------------------------------------------------------
\* (v >> 8*(N/8 - i)) mod 256 for the i-th of the N/8 bytes, i from 1
ByteAt(v, i) == IF i % 2 = 1 THEN v[(i + 1) \div 2] \div 256 ELSE v[i \div 2] % 256

\* the sum of b[i] * 256^(N/8 - i), as a word
WordOfBytes(b) == [j \in 1..(Len(b) \div 2) |-> b[2 * j - 1] * 256 + b[2 * j]]

\* the decoder of the same width as an encoder
DecodeOf(op, b) ==
    CASE op = "be64encode" -> be64decode(b)
      [] op = "be32encode" -> be32decode(b)
      [] op = "be16encode" -> be16decode(b)

\* C20: encodeN stores exactly N/8 bytes, most significant first, and
\* decodeN of them is the value; decodeN of any N/8 bytes is the sum of
\* byte[i] * 256^(N/8-1-i), without wrap-around or sign extension.
C20_Codec ==
    /\ last.op \in {"be64encode", "be32encode", "be16encode"} =>
         /\ Len(last.out) = 2 * Len(last.arg)
         /\ \A i \in 1..Len(last.out) : last.out[i] = ByteAt(last.arg, i)
         /\ DecodeOf(last.op, last.out) = last.arg
    /\ last.op \in {"be64decode", "be32decode", "be16decode"} =>
         /\ Len(last.out) * 2 = Len(last.arg)
         /\ last.out = WordOfBytes(last.arg)

\* 0x80FF0012 decoded from bytes whose first is above 0x7f
C20_Witness ==
    /\ last.op = "be32decode"
    /\ last.arg = <<128, 255, 0, 18>>
    /\ last.out = <<33023, 18>>

\* ------------------------------------------------------------------------
\* Further properties of RandomGenerator (SpecRand)
\* ------------------------------------------------------------------------
\* the keys returned by get() so far, resets or not
Returned == { rets[i].val : i \in { j \in 1..Len(rets) : rets[j].op = "get" } }

\* C21: in a build with assertions, get() on an empty working list and an
\* empty pool ends in the failed assertion before a key is returned and
\* before the working list changes; with a pool that is not empty the
\* assertion never fails.
C21_Assertion ==
    /\ (debug # 0 /\ pool = {} /\ last.op = "get") =>
            /\ halted
            /\ last.arg = "assertion failed"
            /\ Returned = {}
            /\ rgen.elems = <<>>
    /\ (pool # {} /\ last.op = "get") => last.arg = "returned"

\* the assertion has failed in a get() made after a reset()
C21_Witness ==
    /\ halted /\ debug = 1 /\ pool = {}
    /\ last.op = "get" /\ last.arg = "assertion failed"
    /\ Len(rets) = 1 /\ rets[1].op = "reset"

\* ------------------------------------------------------------------------
\* Further properties of CombinationGenerator (SpecComb)
\* ------------------------------------------------------------------------
\* a is before b in lexicographic order, false < true
LexLess(a, b) ==
    \E i \in 1..Len(a) : ~a[i] /\ b[i] /\ \A j \in 1..(i - 1) : a[j] = b[j]

\* the masks of length n that select k indices
Arrangements(n, k) == { m \in [1..n -> BOOLEAN] : Cardinality({ i \in 1..n : m[i] }) = k }

\* the loop runs on a pool that had n >= 1 elements at the first get(), k <= n
InLoop ==
    /\ ~halted /\ rets # <<>> /\ LoopOnly
    /\ FirstSize >= 1 /\ cgen.ssize <= FirstSize

\* C22: the first get() returns the snapshot elements at the indices
\* [n-k, n); each later get() of the loop uses the next mask in
\* lexicographic order, the last one selects [0, k); each combination lists
\* its elements in the order of the snapshot; after a draw hasNext() is
\* true iff a greater mask exists.
C22_Ordering ==
    InLoop =>
        LET n == FirstSize
            k == cgen.ssize
            A == Arrangements(n, k)
        IN  /\ rets[1].mask = [i \in 1..n |-> i > n - k]
            /\ rets[1].val = SubSeq(cgen.elems, n - k + 1, n)
            /\ \A i \in 1..(Len(rets) - 1) :
                 /\ LexLess(rets[i].mask, rets[i + 1].mask)
                 /\ ~\E m \in A : LexLess(rets[i].mask, m) /\ LexLess(m, rets[i + 1].mask)
            /\ \A i \in 1..Len(rets) :
                 /\ rets[i].mask \in A
                 /\ Range(rets[i].val) = { cgen.elems[j] : j \in { x \in 1..n : rets[i].mask[x] } }
                 /\ \A a, b \in 1..Len(rets[i].val) : a < b => rets[i].val[a] < rets[i].val[b]
            /\ hasNext(cgen, pool) <=> \E m \in A : LexLess(rets[Len(rets)].mask, m)
            /\ ~hasNext(cgen, pool) => rets[Len(rets)].mask = [i \in 1..n |-> i <= k]

\* the third of the six combinations of {1,2,3,4} by two: mask FTTF
C22_Witness ==
    /\ InLoop /\ cgen.ssize = 2 /\ FirstSize = 4
    /\ Len(rets) = 3
    /\ rets[3].mask = <<FALSE, TRUE, TRUE, FALSE>>
    /\ rets[3].val = <<2, 3>>

\* what a step of the caller does to the generator's view of the pool
C24_Step ==
    /\ (rets' = <<>> /\ ~halted') =>
            (hasNext(cgen', pool') <=> Cardinality(pool') >= cgen'.ssize)
    /\ (rets = <<>> /\ rets' # <<>>) =>
            /\ cgen'.elems = Ascending(pool)
            /\ Len(rets'[1].mask) = Cardinality(pool)
            /\ Range(rets'[1].val) \subseteq pool
    /\ (rets # <<>> /\ FirstSize >= 1 /\ ~halted) =>
            /\ pool' # pool =>
                 /\ cgen' = cgen
                 /\ hasNext(cgen', pool') = hasNext(cgen, pool)
                 /\ CombinationGenerator_get(cgen', pool').val
                        = CombinationGenerator_get(cgen, pool).val
            /\ rets' # rets =>
                 /\ cgen'.elems = cgen.elems
                 /\ rets'[Len(rets')].val
                        = CombinationGenerator_get(cgen, Range(cgen.elems)).val
    /\ InLoop' =>
            /\ Len(rets') <= Binomial(Len(rets'[1].mask), cgen'.ssize)
            /\ hasNext(cgen', pool')
                   <=> Len(rets') < Binomial(Len(rets'[1].mask), cgen'.ssize)

\* C24: the pool is read until the first get() only.  Before it hasNext()
\* follows the pool's size as it is at the call, and the first get()
\* captures the pool as it is then; with a pool not empty at the first
\* get(), no later insert or erase changes hasNext() or what the next
\* get() returns, and the loop yields C(n, k) results, n being the size at
\* the first draw.
C24_LazySnapshot == [][C24_Step]_vars

\* a get() made after the owner changed a pool that was captured before
C24_Witness ==
    /\ ~halted /\ Len(rets) >= 2 /\ FirstSize >= 1
    /\ last.op = "get"
    /\ pool # Range(cgen.elems)
    /\ ~(Range(rets[Len(rets)].val) \subseteq pool)

\* C26: with n >= 1 and k <= n, the get() that returns the last combination
\* puts the mask back to the first arrangement; a get() made after
\* hasNext() became false returns the first combination again and, when
\* C(n, k) > 1, makes hasNext() true again: the results of repeated get()
\* calls have period C(n, k).
C26_WrapAround ==
    (~halted /\ rets # <<>> /\ FirstSize >= 1 /\ cgen.ssize <= FirstSize) =>
        LET period == Binomial(FirstSize, cgen.ssize)
        IN  /\ \A i \in 1..Len(rets) :
                 /\ rets[i].hasNext <=> (i = 1 \/ (i - 1) % period # 0)
                 /\ i > period => /\ rets[i].val = rets[i - period].val
                                  /\ rets[i].mask = rets[i - period].mask
            /\ Len(rets) % period = 0 =>
                 /\ cgen.bmap = rets[1].mask
                 /\ ~hasNext(cgen, pool)
            /\ Len(rets) % period # 0 => hasNext(cgen, pool)

\* the seventh get() on {1,2,3,4} by two returns the first combination
C26_Witness ==
    /\ ~halted /\ cgen.ssize = 2 /\ Len(rets) >= 1 /\ FirstSize = 4
    /\ Len(rets) = 7
    /\ ~rets[7].hasNext
    /\ rets[7].val = <<3, 4>> /\ rets[1].val = <<3, 4>>
    /\ hasNext(cgen, pool)

\* the index in the history of the get() that last filled the working
\* list, 0 when there was none since construction or the last reset()
LastFill ==
    LET I == { i \in (LastReset + 1)..Len(rets) : rets[i].fill }
    IN  IF I = {} THEN 0 ELSE CHOOSE i \in I : \A j \in I : j <= i

\* the keys returned since the working list was last filled
SinceFill == IF LastFill = 0 THEN {} ELSE { rets[i].val : i \in LastFill..Len(rets) }

\* C28: on a pool of n >= 1 keys, in every state reached by get() and
\* reset(): the working list has no duplicate, holds pool keys only and
\* none of the keys returned since it was filled; its length is n minus
\* the number of draws since it was filled; the key a get() returned is
\* not in the list after the call.
C28_WorkingList ==
    (~halted /\ Cardinality(pool) >= 1) =>
        /\ Cardinality(Range(rgen.elems)) = Len(rgen.elems)
        /\ Range(rgen.elems) \subseteq pool
        /\ Range(rgen.elems) \cap SinceFill = {}
        /\ LastFill = 0 => rgen.elems = <<>>
        /\ LastFill # 0 =>
             /\ Len(rgen.elems) = Cardinality(pool) - (Len(rets) - LastFill + 1)
             /\ Range(rgen.elems) \cup SinceFill = pool
        /\ last.op = "get" => rets[Len(rets)].val \notin Range(rgen.elems)

\* two of three keys drawn in a pass that a get() began by itself
C28_Witness ==
    /\ ~halted /\ pool = {1, 2, 3}
    /\ LastReset = 0 /\ LastFill = 4 /\ Len(rets) = 5
    /\ rgen.elems = <<2>>
    /\ last.op = "get"
\* ------------------------------------------------------------------------
\* Properties of write-only sequences (Spec)
\* ------------------------------------------------------------------------
Appenders == AllWrites \cup {"concat"}

\* the bytes the call produces on a cleared buffer
Appended(op, arg) ==
    CASE op = "writeCstring" -> writeCstring(ByteBuffer, arg).buf
      [] op = "writeRset"    -> writeRset(ByteBuffer, arg).buf
      [] op = "writeBuffer"  -> writeBuffer(ByteBuffer, arg).buf
      [] op = "concat"       -> Prefix(arg)
      [] OTHER               -> Encoding(op, arg)

\* C25: from a constructed or cleared buffer, after any sequence of typed
\* writes and concat only, getPos() = size(), and every such call places its
\* bytes directly after the bytes already written, which stay as they were.
\* Stated as the step of that induction: a write or concat made with the
\* cursor at the end of the content completes, leaves the cursor at the end
\* and the content is the old content followed by the bytes of the call.
C25_WriteOnlyCursor ==
    (last.op \in Appenders /\ last.pos0 = Len(last.buf0)) =>
        /\ ~halted
        /\ pos = Len(buf)
        /\ buf = last.buf0 \o Appended(last.op, last.arg)
\* ------------------------------------------------------------------------
\* Properties of reads (SpecRead)
\* ------------------------------------------------------------------------
FixedReads == {"readU64", "readUint", "readInt", "readBool"}

CountedReads == {"readString", "readRset", "readBuffer"}

\* the bytes one element of a counted read takes
ElemWidth(op) == IF op = "readRset" THEN 4 ELSE 1

\* the decoded size of the fixed-size reads
ReadWidth(op) ==
    CASE op = "readU64"  -> 8
      [] op = "readUint" -> 4
      [] op = "readInt"  -> 4
      [] op = "readBool" -> 1

\* the length prefix the last call found at its cursor
Count == IntAt(last.buf0, last.pos0)

\* the last call was a read whose encoded value lies inside the content
ReadWithin ==
    \/ /\ last.op \in FixedReads
       /\ last.pos0 + ReadWidth(last.op) <= Len(last.buf0)
    \/ /\ last.op \in CountedReads
       /\ last.pos0 + 4 <= Len(last.buf0)
       /\ last.buf0[last.pos0 + 1] < 128
       /\ Count <= Len(last.buf0)
       /\ last.pos0 + 4 + ElemWidth(last.op) * Count <= Len(last.buf0)

\* the size the last read decoded
DecodedSize ==
    IF last.op \in FixedReads THEN ReadWidth(last.op)
    ELSE 4 + ElemWidth(last.op) * Count

\* C23: every read of a value that lies inside the content completes,
\* leaves size() and every byte as they were and advances getPos() by the
\* decoded size: 8 for readU64, 4 for readUint and readInt, 1 for readBool,
\* 4 + count for readString and readBuffer, 4 + 4 * count for readRset;
\* readBool yields false for the byte 0 and true for any other byte.
C23_CursorOnly ==
    ReadWithin =>
        /\ ~halted
        /\ buf = last.buf0
        /\ pos = last.pos0 + DecodedSize
        /\ last.op = "readBool" => (last.val <=> last.buf0[last.pos0 + 1] # 0)

\* C27: readString leaves in its output the old characters followed by the
\* decoded ones, readRset leaves the old elements united with the decoded
\* ones, and readBuffer leaves the decoded bytes only, with position 0,
\* whatever its output held before.
C27_Accumulate ==
    ReadWithin =>
        LET at == last.pos0 + 4
        IN  /\ last.op \in CountedReads => ~halted
            /\ last.op = "readString" =>
                 last.val = last.arg
                            \o [i \in 1..Count |-> ByteToChar(last.buf0[at + i])]
            /\ last.op = "readRset" =>
                 last.val = last.arg
                            \cup {IntAt(last.buf0, at + 4 * i) : i \in 0..(Count - 1)}
            /\ last.op = "readBuffer" =>
                 /\ last.val.buf = SubSeq(last.buf0, at + 1, at + Count)
                 /\ last.val.pos = 0

====
